---------------------------- MODULE Spec2Model ----------------------------
(***************************************************************************)
(* Fleet dashboard: the record-matching and compliance-scoring pipeline    *)
(* of fleet_dashboard.py (fleet_dashboard_auto.py holds the same code).    *)
(*                                                                         *)
(* A Python str is a sequence of one-character strings, so that            *)
(* startswith, upper and the `in` substring test are computed as Python    *)
(* computes them.  A pandas null cell (NaN) is the value NaN below, which  *)
(* is no str.  A DataFrame is a record                                     *)
(*     [columns |-> <<name, ...>>, rows |-> <<[label, cells], ...>>]       *)
(* where label is the row's index label (df.index) and cells[j] is the     *)
(* cell under columns[j].  Column names are unique, as pd.read_csv makes   *)
(* them.  A call that can raise yields [exc, value], exc = "none" when it  *)
(* returned.  An optional value is <<>> (None) or <<v>>.                   *)
(*                                                                         *)
(* Specifications:                                                         *)
(*   Spec       get_excel_data, then process_combined_data over the list   *)
(*   SpecClean  clean_excel_data on a raw table, then on its own result    *)
(*   SpecMatch  find_excel_match for one vehicle on a cleaned table        *)
(*   SpecDays   calculate_days_remaining and get_alert_status on the text  *)
(*              of a date near today                                       *)
(*   SpecAlert  get_alert_status on a range of day-offsets and on None     *)
(*   SpecRecord   the calls of Spec on a sheet whose date cells vary         *)
(*   SpecExtract  the calls of Spec on a sheet whose column names vary       *)
(*   SpecSession  the script runs of main in fleet_dashboard_auto.py         *)
(***************************************************************************)
EXTENDS Integers, Sequences, FiniteSets, TLC

VARIABLES
    pc,             \* position of the run
    raw_df,         \* the table pd.read_csv returned
    excel_df,       \* outcome of clean_excel_data(raw_df)
    again_df,       \* outcome of clean_excel_data applied to the cleaned table
    now,            \* datetime.now(): [ordinal |-> day number, second |-> of the day]
    offset,         \* the N of the date 'today + N days' handed to strftime
    date_value,     \* argument of calculate_days_remaining
    days_remaining, \* result of calculate_days_remaining, argument of get_alert_status
    alert,          \* result of get_alert_status
    samsara_data,   \* the list get_samsara_stats returned
    excel_match,    \* result of find_excel_match for the vehicle last looked up
    vi,             \* process_combined_data: 1-based position of the next vehicle
    combined_data,  \* process_combined_data: the list of records built so far
    session_state,  \* st.session_state: the keys set, each with its value
    auto_refresh,   \* main: the 'Auto-refresh data' checkbox as the run read it
    refresh_interval,   \* main: the 'Refresh interval (seconds)' the run read
    time_since_update,  \* main: the local of that name, None while unset
    shown           \* main: what the run has put on the page so far

cleanVars == <<raw_df, excel_df, again_df>>
dateVars == <<now, offset, date_value, days_remaining, alert>>
fleetVars == <<samsara_data, excel_match, vi, combined_data>>
sessionVars == <<session_state, auto_refresh, refresh_interval,
                 time_since_update, shown>>
vars == <<pc, cleanVars, dateVars, fleetVars, sessionVars>>

---------------------------------------------------------------------------
(* Python str values used by the program and by the inputs *)

LowerLetters == <<"a","b","c","d","e","f","g","h","i","j","k","l","m",
                  "n","o","p","q","r","s","t","u","v","w","x","y","z">>
UpperLetters == <<"A","B","C","D","E","F","G","H","I","J","K","L","M",
                  "N","O","P","Q","R","S","T","U","V","W","X","Y","Z">>

\* the upper-case letter of every lower-case letter
UpperOf ==
    [c \in {LowerLetters[k] : k \in 1..Len(LowerLetters)} |->
        UpperLetters[CHOOSE k \in 1..Len(LowerLetters) : LowerLetters[k] = c]]

\* str.upper() on one character
UpperChar(c) == IF c \in DOMAIN UpperOf THEN UpperOf[c] ELSE c

\* str.upper()
upper(s) == [k \in 1..Len(s) |-> UpperChar(s[k])]

\* s.startswith(prefix)
startswith(s, prefix) ==
    /\ Len(s) >= Len(prefix)
    /\ SubSeq(s, 1, Len(prefix)) = prefix

\* sub in s
contains(sub, s) ==
    \E k \in 0..(Len(s) - Len(sub)) : SubSeq(s, k + 1, k + Len(sub)) = sub

EmptyStr == <<>>
NaN == <<"NaN">>                       \* a null cell: not a str
StrNan == <<"n","a","n">>              \* str(float('nan'))

StrUnnamed == <<"U","n","n","a","m","e","d">>
StrVIN == <<"V","I","N">>
StrOLD == <<"O","L","D">>
StrDKD == <<"D","K","D">>
StrGNS == <<"G","N","S">>
StrSOLD == <<"S","O","L","D">>
StrTRUCK == <<"T","R","U","C","K">>
StrSTATUS == <<"S","T","A","T","U","S">>
StrANNUAL == <<"A","N","N","U","A","L">>
StrPM == <<"P","M">>
StrDATE == <<"D","A","T","E">>
StrINSP == <<"I","N","S","P">>
StrID == <<"I","D">>

\* inputs only
ColUnnamed0 == <<"U","n","n","a","m","e","d",":"," ","0">>
ColUnnamed1 == <<"U","n","n","a","m","e","d",":"," ","1">>
ColTruck == <<"T","r","u","c","k">>
ColVin == <<"V","i","n"," ","#">>
StrOldLower == <<"o","l","d">>
StrT1 == <<"T","1">>
StrT2 == <<"T","2">>
ColUnitId == <<"U","n","i","t"," ","I","D">>
StrV1 == <<"1","F","T","1">>
StrX9 == <<"X","-","9">>
StrV2 == <<"1","F","T","2">>
ColStatus == <<"S","t","a","t","u","s">>
ColAnnual == <<"A","n","n","u","a","l">>
ColPmDate == <<"P","M"," ","D","a","t","e">>
ColPmInsp == <<"P","M"," ","I","n","s","p">>

---------------------------------------------------------------------------
(* pandas *)

EmptyDF == [columns |-> <<>>, rows |-> <<>>]          \* pd.DataFrame()

\* df.empty: some axis has length 0
empty(df) == Len(df.columns) = 0 \/ Len(df.rows) = 0

\* df.iloc[:, a-1:b] (columns a..b, 1-based, kept with every row)
iloc_columns(df, a, b) ==
    [columns |-> SubSeq(df.columns, a, b),
     rows |-> [i \in 1..Len(df.rows) |->
                  [label |-> df.rows[i].label,
                   cells |-> SubSeq(df.rows[i].cells, a, b)]]]

\* position of the column named col
ColumnPos(df, col) == CHOOSE j \in 1..Len(df.columns) : df.columns[j] = col

\* df[df[col] != value]: the rows are kept with their index labels
KeepNotEqual(df, col, value) ==
    LET IsKept(row) == row.cells[ColumnPos(df, col)] # value
    IN [columns |-> df.columns, rows |-> SelectSeq(df.rows, IsKept)]

\* outcomes of a call
Ok(v) == [exc |-> "none", value |-> v]
Raise(e) == [exc |-> e, value |-> EmptyDF]

---------------------------------------------------------------------------
(* clean_excel_data *)

filters_to_remove == <<StrOLD, StrDKD, StrGNS, StrSOLD>>

\* the loop left after its first pass
RemoveFirstFilterOnly(df, first_col, k) ==
    KeepNotEqual(df, first_col, filters_to_remove[1])

\* for filter_val in filters_to_remove[k..]: df = df[df[first_col] != filter_val]
RECURSIVE RemoveFilters(_, _, _)
RemoveFilters(df, first_col, k) ==
    IF k > Len(filters_to_remove) THEN df
    ELSE RemoveFilters(KeepNotEqual(df, first_col, filters_to_remove[k]),
                       first_col, k + 1)

IsVinColumn(col) == contains(StrVIN, upper(col))

\* the loop that sets vin_index: 0-based position of the first column whose
\* upper-cased name holds 'VIN', or -1 for None
VinIndex(columns) ==
    IF \E j \in 1..Len(columns) : IsVinColumn(columns[j])
    THEN (CHOOSE j \in 1..Len(columns) :
             /\ IsVinColumn(columns[j])
             /\ \A h \in 1..(j - 1) : ~IsVinColumn(columns[h])) - 1
    ELSE -1

\* the slice written df.iloc[:, :vin_index]
TrimAtVin(df) ==
    IF VinIndex(df.columns) # -1
    THEN iloc_columns(df, 1, VinIndex(df.columns))
    ELSE df

TrimAfterVin(df) ==
    IF VinIndex(df.columns) # -1
    THEN iloc_columns(df, 1, VinIndex(df.columns) + 1)
    ELSE df

\* the first column dropped whatever its name
DropFirstColumn(df) == iloc_columns(df, 2, Len(df.columns))

DropUnnamed(df) ==
    IF startswith(df.columns[1], StrUnnamed)
    THEN iloc_columns(df, 2, Len(df.columns))
    ELSE df

clean_excel_data(df) ==
    IF empty(df) THEN Ok(df)
    ELSE LET df1 == DropUnnamed(df)
         IN IF Len(df1.columns) = 0
            THEN Raise("IndexError")          \* first_col = df.columns[0]
            ELSE Ok(TrimAfterVin(RemoveFilters(df1, df1.columns[1], 1)))

---------------------------------------------------------------------------
(* datetime: the proleptic Gregorian calendar of datetime.date *)

Digits == <<"0","1","2","3","4","5","6","7","8","9">>

IsDigit(c) == \E k \in 1..Len(Digits) : Digits[k] = c
DigitValue(c) == (CHOOSE k \in 1..Len(Digits) : Digits[k] = c) - 1

IsLeap(y) == (y % 4 = 0) /\ ((y % 100 # 0) \/ (y % 400 = 0))

DaysInMonth(y, m) ==
    IF m = 2 THEN (IF IsLeap(y) THEN 29 ELSE 28)
    ELSE IF m \in {4, 6, 9, 11} THEN 30 ELSE 31

RECURSIVE DaysBeforeMonth(_, _)
DaysBeforeMonth(y, m) ==
    IF m = 1 THEN 0 ELSE DaysBeforeMonth(y, m - 1) + DaysInMonth(y, m - 1)

DaysBeforeYear(y) ==
    (y - 1) * 365 + ((y - 1) \div 4) - ((y - 1) \div 100) + ((y - 1) \div 400)

\* date(y, m, d).toordinal()
toordinal(y, m, d) == DaysBeforeYear(y) + DaysBeforeMonth(y, m) + d

\* date(y, m, d) is a date (its constructor raises ValueError otherwise)
IsDate(y, m, d) ==
    /\ y \in 1..9999
    /\ m \in 1..12
    /\ d \in 1..DaysInMonth(y, m)

SecondsPerDay == 86400

\* (target_date - today).days: target_date is midnight of the day numbered
\* target, today is now; timedelta.days is the floor of the difference in days
timedelta_days(target, today) ==
    ((target - today.ordinal) * SecondsPerDay - today.second) \div SecondsPerDay

---------------------------------------------------------------------------
(* datetime.strptime for the directives %m, %d, %Y and literal characters *)

None == <<>>
Some(v) == <<v>>

\* the decimal number written by a run of digits
RECURSIVE DecimalValue(_)
DecimalValue(t) ==
    IF Len(t) = 0 THEN 0
    ELSE 10 * DecimalValue(SubSeq(t, 1, Len(t) - 1)) + DigitValue(t[Len(t)])

AllDigits(t) == \A k \in 1..Len(t) : IsDigit(t[k])

\* %Y: \d\d\d\d
MatchYear(t) ==
    IF Len(t) = 4 /\ AllDigits(t) THEN DecimalValue(t) ELSE -1

\* %m: 1[0-2] | 0[1-9] | [1-9]
MatchMonth(t) ==
    IF Len(t) \in {1, 2} /\ AllDigits(t) /\ DecimalValue(t) \in 1..12
    THEN DecimalValue(t) ELSE -1

\* %d: 3[0-1] | [1-2]\d | 0[1-9] | [1-9] | ' '[1-9]
MatchDay(t) ==
    IF Len(t) \in {1, 2} /\ AllDigits(t) /\ DecimalValue(t) \in 1..31
    THEN DecimalValue(t)
    ELSE IF Len(t) = 2 /\ t[1] = " " /\ IsDigit(t[2]) /\ DigitValue(t[2]) >= 1
         THEN DigitValue(t[2])
         ELSE -1

MatchField(directive, t) ==
    CASE directive = "%Y" -> MatchYear(t)
      [] directive = "%m" -> MatchMonth(t)
      [] directive = "%d" -> MatchDay(t)

\* a format: three directives and the literal character between them
\* the slash format read day first
FmtSlashDayFirst == [fields |-> <<"%d", "%m", "%Y">>, sep |-> "/"]

FmtSlash == [fields |-> <<"%m", "%d", "%Y">>, sep |-> "/"]      \* '%m/%d/%Y'
FmtIso == [fields |-> <<"%Y", "%m", "%d">>, sep |-> "-"]        \* '%Y-%m-%d'
FmtDot == [fields |-> <<"%d", "%m", "%Y">>, sep |-> "."]        \* '%d.%m.%Y'
FmtDash == [fields |-> <<"%m", "%d", "%Y">>, sep |-> "-"]       \* '%m-%d-%Y'

SepPositions(text, sep) == {k \in 1..Len(text) : text[k] = sep}

\* the three pieces of text between the two separators
Pieces(text, sep) ==
    LET a == CHOOSE k \in SepPositions(text, sep) :
                 \A h \in SepPositions(text, sep) : k <= h
        b == CHOOSE k \in SepPositions(text, sep) :
                 \A h \in SepPositions(text, sep) : h <= k
    IN <<SubSeq(text, 1, a - 1), SubSeq(text, a + 1, b - 1),
         SubSeq(text, b + 1, Len(text))>>

\* the value the directive named gets, or -1
FieldOf(fmt, text, directive) ==
    LET k == CHOOSE k \in 1..3 : fmt.fields[k] = directive
    IN MatchField(directive, Pieces(text, fmt.sep)[k])

\* datetime.strptime(text, fmt): the day number of the date parsed, or -1
\* where it raises ValueError
strptime(text, fmt) ==
    IF Cardinality(SepPositions(text, fmt.sep)) # 2 THEN -1
    ELSE LET y == FieldOf(fmt, text, "%Y")
             m == FieldOf(fmt, text, "%m")
             d == FieldOf(fmt, text, "%d")
         IN IF y = -1 \/ m = -1 \/ d = -1 THEN -1
            ELSE IF ~IsDate(y, m, d) THEN -1
            ELSE toordinal(y, m, d)

---------------------------------------------------------------------------
(* calculate_days_remaining *)

date_formats == <<FmtSlash, FmtIso, FmtDot, FmtDash>>

\* for fmt in date_formats[k..]: try strptime ... except ValueError: continue
RECURSIVE TryFormats(_, _, _)
TryFormats(text, k, today) ==
    IF k > Len(date_formats) THEN None
    ELSE IF strptime(text, date_formats[k]) = -1
         THEN TryFormats(text, k + 1, today)
         ELSE Some(timedelta_days(strptime(text, date_formats[k]), today))

\* a text that no format parses counted as a date due today
calculate_days_remaining_zero(value, today) ==
    IF value = EmptyStr \/ value = NaN THEN None
    ELSE IF TryFormats(value, 1, today) = None THEN Some(0)
    ELSE TryFormats(value, 1, today)

\* today is the value datetime.now() returns during the call
calculate_days_remaining(value, today) ==
    IF value = EmptyStr \/ value = NaN THEN None
    ELSE TryFormats(value, 1, today)

---------------------------------------------------------------------------
(* get_alert_status *)

AlertLabels == {"No Data", "OVERDUE", "CRITICAL", "WARNING", "OK"}

\* the CRITICAL tier closed one day early
get_alert_status_lt30(days) ==
    IF days = None THEN "No Data"
    ELSE IF days[1] < 0 THEN "OVERDUE"
    ELSE IF days[1] < 30 THEN "CRITICAL"
    ELSE IF days[1] <= 60 THEN "WARNING"
    ELSE "OK"

get_alert_status(days) ==
    IF days = None THEN "No Data"
    ELSE IF days[1] < 0 THEN "OVERDUE"
    ELSE IF days[1] <= 30 THEN "CRITICAL"
    ELSE IF days[1] <= 60 THEN "WARNING"
    ELSE "OK"

DateIdle ==
    /\ now = [ordinal |-> 0, second |-> 0]
    /\ offset = 0
    /\ date_value = EmptyStr
    /\ days_remaining = None
    /\ alert = "No Data"

---------------------------------------------------------------------------
(* find_excel_match *)

\* Series.astype(str) on one cell
astype_str(cell) == IF cell = NaN THEN StrNan ELSE cell

\* the test a column name passes to be searched in a phase
IsCandidate(phase, col) ==
    IF phase = "name"
    THEN contains(StrTRUCK, upper(col)) \/ contains(StrID, upper(col))
    ELSE contains(StrVIN, upper(col))

\* excel_df[excel_df[col].astype(str) == key], col given by its position
Matches(df, j, key) ==
    LET IsMatch(row) == astype_str(row.cells[j]) = key
    IN SelectSeq(df.rows, IsMatch)

\* the loop left at the first candidate column, match or not
RECURSIVE FirstCandidateOnly(_, _, _, _)
FirstCandidateOnly(df, j, phase, key) ==
    IF j > Len(df.columns) THEN None
    ELSE IF IsCandidate(phase, df.columns[j])
         THEN (IF Len(Matches(df, j, key)) > 0
               THEN Some(Matches(df, j, key)[1].label)
               ELSE None)
         ELSE FirstCandidateOnly(df, j + 1, phase, key)

\* for col in excel_df.columns[j..]: the index label of the first match in
\* the first candidate column that has a match
RECURSIVE FirstMatch(_, _, _, _)
FirstMatch(df, j, phase, key) ==
    IF j > Len(df.columns) THEN None
    ELSE IF IsCandidate(phase, df.columns[j]) /\ Len(Matches(df, j, key)) > 0
         THEN Some(Matches(df, j, key)[1].label)
         ELSE FirstMatch(df, j + 1, phase, key)

\* the VIN looked up before the name
find_excel_match_vin_first(vehicle_name, samsara_vin, df) ==
    IF samsara_vin # EmptyStr /\ FirstMatch(df, 1, "vin", samsara_vin) # None
    THEN FirstMatch(df, 1, "vin", samsara_vin)
    ELSE FirstMatch(df, 1, "name", vehicle_name)

find_excel_match(vehicle_name, samsara_vin, df) ==
    IF FirstMatch(df, 1, "name", vehicle_name) # None
    THEN FirstMatch(df, 1, "name", vehicle_name)
    ELSE IF samsara_vin # EmptyStr
         THEN FirstMatch(df, 1, "vin", samsara_vin)
         ELSE None

---------------------------------------------------------------------------
(* extract_excel_data *)

\* excel_df.iloc[row_index] exists: row_index is a position, 0-based
IlocInBounds(row_index, df) == row_index < Len(df.rows)

\* a null cell shown as the text 'nan'
CellTextOfNull(cell) == IF cell # NaN THEN cell ELSE StrNan

\* str(row[col]) if pd.notna(row[col]) else ''
CellText(cell) == IF cell # NaN THEN cell ELSE EmptyStr

\* the chain written as four separate if statements
RECURSIVE ExtractColumnsIndependent(_, _, _, _)
ExtractColumnsIndependent(row, columns, j, excel_data) ==
    IF j > Len(columns) THEN excel_data
    ELSE LET col_upper == upper(columns[j])
             text == CellText(row.cells[j])
             d1 == IF contains(StrSTATUS, col_upper)
                   THEN [excel_data EXCEPT !.status = text] ELSE excel_data
             d2 == IF contains(StrANNUAL, col_upper)
                   THEN [d1 EXCEPT !.annual_date = text] ELSE d1
             d3 == IF contains(StrPM, col_upper) /\ contains(StrDATE, col_upper)
                   THEN [d2 EXCEPT !.pm_date = text] ELSE d2
             d4 == IF contains(StrPM, col_upper) /\ contains(StrINSP, col_upper)
                   THEN [d3 EXCEPT !.pm_insp_date = text] ELSE d3
         IN ExtractColumnsIndependent(row, columns, j + 1, d4)

\* for col in excel_df.columns[j..]: the if/elif chain on col_upper
RECURSIVE ExtractColumns(_, _, _, _)
ExtractColumns(row, columns, j, excel_data) ==
    IF j > Len(columns) THEN excel_data
    ELSE LET col_upper == upper(columns[j])
             text == CellText(row.cells[j])
             updated ==
                 IF contains(StrSTATUS, col_upper)
                 THEN [excel_data EXCEPT !.status = text]
                 ELSE IF contains(StrANNUAL, col_upper)
                 THEN [excel_data EXCEPT !.annual_date = text]
                 ELSE IF contains(StrPM, col_upper) /\ contains(StrDATE, col_upper)
                 THEN [excel_data EXCEPT !.pm_date = text]
                 ELSE IF contains(StrPM, col_upper) /\ contains(StrINSP, col_upper)
                 THEN [excel_data EXCEPT !.pm_insp_date = text]
                 ELSE excel_data
         IN ExtractColumns(row, columns, j + 1, updated)

\* the dict returned when excel_df.iloc[row_index] exists
extract_excel_data(row_index, df) ==
    ExtractColumns(df.rows[row_index + 1], df.columns, 1,
                   [status |-> EmptyStr, annual_date |-> EmptyStr,
                    pm_date |-> EmptyStr, pm_insp_date |-> EmptyStr])

---------------------------------------------------------------------------
(* process_combined_data *)

\* a reading of the stats API: [value |-> meters, time |-> str], or None for {}
NoReading == None

\* one element of the list the stats API returns
Vehicle(id, name, vin, serial, obd, gps) ==
    [id |-> id, name |-> name,
     externalIds |-> [vin |-> vin, serial |-> serial],
     obdOdometerMeters |-> obd, gpsDistanceMeters |-> gps]

\* round(x, 0) of the quotient num / den, ties to even, then int()
RoundQuotient(num, den) ==
    LET q == num \div den
        twice == 2 * (num % den)
    IN IF twice > den \/ (twice = den /\ q % 2 = 1) THEN q + 1 ELSE q

\* round((data.get('value', 0) / 1609.34), 0) if data.get('value') else 0
Miles(reading) ==
    IF reading = NoReading \/ reading[1].value = 0 THEN 0
    ELSE RoundQuotient(reading[1].value * 100, 160934)

\* data.get('time', '') if data else ''
ReadingTime(reading) == IF reading = NoReading THEN EmptyStr ELSE reading[1].time

\* the dict with 'PM_Alert' taken from annual_days
combined_info_pm_alert_from_annual(vehicle, excel_data, today) ==
    LET annual_days == calculate_days_remaining(excel_data.annual_date, today)
        pm_days == calculate_days_remaining(excel_data.pm_date, today)
        pm_insp_days == calculate_days_remaining(excel_data.pm_insp_date, today)
    IN [Vehicle_ID |-> vehicle.id,
        Vehicle_Name |-> vehicle.name,
        VIN |-> vehicle.externalIds.vin,
        Serial |-> vehicle.externalIds.serial,
        OBD_Odometer_Miles |-> Miles(vehicle.obdOdometerMeters),
        GPS_Distance_Miles |-> Miles(vehicle.gpsDistanceMeters),
        OBD_Last_Update |-> ReadingTime(vehicle.obdOdometerMeters),
        GPS_Last_Update |-> ReadingTime(vehicle.gpsDistanceMeters),
        Status |-> excel_data.status,
        Annual_Date |-> excel_data.annual_date,
        Annual_Days_Remaining |-> annual_days,
        PM_Date |-> excel_data.pm_date,
        PM_Days_Remaining |-> pm_days,
        PM_Insp_Date |-> excel_data.pm_insp_date,
        PM_Insp_Days_Remaining |-> pm_insp_days,
        Annual_Alert |-> get_alert_status(annual_days),
        PM_Alert |-> get_alert_status(annual_days),
        PM_Insp_Alert |-> get_alert_status(pm_insp_days)]

\* the dict appended for a vehicle whose row was extracted
combined_info(vehicle, excel_data, today) ==
    LET annual_days == calculate_days_remaining(excel_data.annual_date, today)
        pm_days == calculate_days_remaining(excel_data.pm_date, today)
        pm_insp_days == calculate_days_remaining(excel_data.pm_insp_date, today)
    IN [Vehicle_ID |-> vehicle.id,
        Vehicle_Name |-> vehicle.name,
        VIN |-> vehicle.externalIds.vin,
        Serial |-> vehicle.externalIds.serial,
        OBD_Odometer_Miles |-> Miles(vehicle.obdOdometerMeters),
        GPS_Distance_Miles |-> Miles(vehicle.gpsDistanceMeters),
        OBD_Last_Update |-> ReadingTime(vehicle.obdOdometerMeters),
        GPS_Last_Update |-> ReadingTime(vehicle.gpsDistanceMeters),
        Status |-> excel_data.status,
        Annual_Date |-> excel_data.annual_date,
        Annual_Days_Remaining |-> annual_days,
        PM_Date |-> excel_data.pm_date,
        PM_Days_Remaining |-> pm_days,
        PM_Insp_Date |-> excel_data.pm_insp_date,
        PM_Insp_Days_Remaining |-> pm_insp_days,
        Annual_Alert |-> get_alert_status(annual_days),
        PM_Alert |-> get_alert_status(pm_days),
        PM_Insp_Alert |-> get_alert_status(pm_insp_days)]

FleetIdle ==
    /\ samsara_data = <<>>
    /\ excel_match = None
    /\ vi = 1
    /\ combined_data = <<>>

---------------------------------------------------------------------------
(* st.session_state and the widgets of main (fleet_dashboard_auto.py) *)

\* st.session_state of a new browser session: no key set
NoSession == [key \in {} |-> None]

\* the values the selectbox 'Refresh interval (seconds)' offers
refresh_intervals == <<30, 60, 300, 900>>

SessionIdle ==
    /\ session_state = NoSession
    /\ auto_refresh = FALSE
    /\ refresh_interval = refresh_intervals[2]
    /\ time_since_update = None
    /\ shown = {}

---------------------------------------------------------------------------
(* Inputs of the cleaning runs *)

CleanMaxCols == 3
CleanMaxRows == 2

CleanColNames == {ColUnnamed0, ColUnnamed1, ColTruck, ColVin}
FirstCellValues == {StrOLD, StrDKD, StrGNS, StrSOLD, StrOldLower, StrT1, NaN}
OtherCellValues == {StrSOLD, StrT2}

\* headers of n columns as read_csv names them: distinct names, the
\* placeholder 'Unnamed: k' only for a blank header at position k
Layouts(names, n) ==
    {s \in [1..n -> names] :
        /\ \A a, b \in 1..n : a # b => s[a] # s[b]
        /\ \A a \in 1..n : (s[a] = ColUnnamed0) => (a = 1)
        /\ \A a \in 1..n : (s[a] = ColUnnamed1) => (a = 2)}

\* a row of n cells: any value in the first cell, one value in the others
CellRows(n) ==
    {[j \in 1..n |-> IF j = 1 THEN a ELSE b] :
        a \in FirstCellValues, b \in OtherCellValues}

\* the table read_csv builds from a header and its lines: labels 0..m-1
MakeDF(columns, cellrows) ==
    [columns |-> columns,
     rows |-> [i \in 1..Len(cellrows) |-> [label |-> i - 1, cells |-> cellrows[i]]]]

\* the tables read_csv can return: no column and no row, or 1..CleanMaxCols
\* columns and 0..CleanMaxRows rows
IsCleanInput(df) ==
    \E n \in 0..CleanMaxCols, m \in 0..CleanMaxRows :
        /\ n = 0 => m = 0
        /\ \E cols \in Layouts(CleanColNames, n), cr \in [1..m -> CellRows(n)] :
               df = MakeDF(cols, cr)

---------------------------------------------------------------------------
(* The cleaning run: get_excel_data cleans the table read_csv returned;    *)
(* the cleaned table is then cleaned once more.                            *)

InitClean ==
    /\ pc = "read"
    /\ IsCleanInput(raw_df)
    /\ excel_df = Ok(EmptyDF)
    /\ again_df = Ok(EmptyDF)
    /\ DateIdle
    /\ FleetIdle
    /\ SessionIdle

CleanOnce ==
    /\ pc = "read"
    /\ excel_df' = clean_excel_data(raw_df)
    /\ pc' = IF excel_df'.exc = "none" THEN "cleaned" ELSE "raised"
    /\ UNCHANGED <<raw_df, again_df, dateVars, fleetVars, sessionVars>>

CleanAgain ==
    /\ pc = "cleaned"
    /\ again_df' = clean_excel_data(excel_df.value)
    /\ pc' = IF again_df'.exc = "none" THEN "recleaned" ELSE "raised"
    /\ UNCHANGED <<raw_df, excel_df, dateVars, fleetVars, sessionVars>>

NextClean == CleanOnce \/ CleanAgain

SpecClean == InitClean /\ [][NextClean]_vars

---------------------------------------------------------------------------
(* datetime.strftime, to write the inputs of the date runs *)

Pad2(v) == <<Digits[(v \div 10) + 1], Digits[(v % 10) + 1]>>
Pad4(v) == Pad2(v \div 100) \o Pad2(v % 100)

FormatField(directive, ymd) ==
    CASE directive = "%Y" -> Pad4(ymd[1])
      [] directive = "%m" -> Pad2(ymd[2])
      [] directive = "%d" -> Pad2(ymd[3])

\* date(ymd).strftime(fmt)
strftime(ymd, fmt) ==
    FormatField(fmt.fields[1], ymd) \o <<fmt.sep>> \o
    FormatField(fmt.fields[2], ymd) \o <<fmt.sep>> \o
    FormatField(fmt.fields[3], ymd)

---------------------------------------------------------------------------
(* The date run: the text of 'today + offset days' in one of the supported *)
(* formats goes through calculate_days_remaining and get_alert_status, as  *)
(* process_combined_data does with each date field.                        *)

DaysMaxOffset == 3

\* days the run happens on: the ends of February, of a year, an ordinary day
TodayDates == {<<2024, 2, 28>>, <<2025, 2, 28>>, <<2025, 12, 31>>, <<2026, 11, 2>>}
\* instants of the day: midnight, one second later, noon, the last second
SecondsOfDay == {0, 1, 43200, SecondsPerDay - 1}

CleanIdle ==
    /\ raw_df = EmptyDF
    /\ excel_df = Ok(EmptyDF)
    /\ again_df = Ok(EmptyDF)

InitDays ==
    /\ pc = "field"
    /\ CleanIdle
    /\ FleetIdle
    /\ \E t \in TodayDates, s \in SecondsOfDay, fmt \in 1..Len(date_formats) :
          /\ now = [ordinal |-> toordinal(t[1], t[2], t[3]), second |-> s]
          /\ \E target \in ((t[1] - 1)..(t[1] + 1)) \X (1..12) \X (1..31) :
                /\ IsDate(target[1], target[2], target[3])
                /\ offset = toordinal(target[1], target[2], target[3]) - now.ordinal
                /\ offset \in (0 - DaysMaxOffset)..DaysMaxOffset
                /\ date_value = strftime(target, date_formats[fmt])
    /\ days_remaining = None
    /\ alert = "No Data"
    /\ SessionIdle

\* annual_days = calculate_days_remaining(excel_data.get('annual_date'))
CalculateDays ==
    /\ pc = "field"
    /\ days_remaining' = calculate_days_remaining(date_value, now)
    /\ pc' = "days"
    /\ UNCHANGED <<cleanVars, fleetVars, sessionVars,
                   now, offset, date_value, alert>>

\* 'Annual_Alert': get_alert_status(annual_days)
ClassifyDays ==
    /\ pc = "days"
    /\ alert' = get_alert_status(days_remaining)
    /\ pc' = "alert"
    /\ UNCHANGED <<cleanVars, fleetVars, sessionVars,
                   now, offset, date_value, days_remaining>>

NextDays == CalculateDays \/ ClassifyDays

SpecDays == InitDays /\ [][NextDays]_vars

---------------------------------------------------------------------------
(* The alert run: get_alert_status on every day-offset of a range and on   *)
(* None.                                                                   *)

AlertMaxDays == 62

InitAlert ==
    /\ pc = "days"
    /\ CleanIdle
    /\ FleetIdle
    /\ now = [ordinal |-> 0, second |-> 0]
    /\ offset = 0
    /\ date_value = EmptyStr
    /\ days_remaining \in
          {None} \cup {Some(d) : d \in (0 - AlertMaxDays)..AlertMaxDays}
    /\ alert = "No Data"
    /\ SessionIdle

NextAlert == ClassifyDays

SpecAlert == InitAlert /\ [][NextAlert]_vars

---------------------------------------------------------------------------
(* The lookup run: one vehicle of the telematics list is looked up in the  *)
(* cleaned table, as process_combined_data does for each vehicle when      *)
(* neither input is empty.                                                 *)

MatchMaxCols == 3
MatchMaxRows == 2

MatchColNames == {ColTruck, ColUnitId, ColVin}
MatchFirstCells == {StrOLD, StrT1, StrV1, NaN}
MatchOtherCells == {StrT1, StrV1}
MatchNames == {StrT1, StrX9, StrNan}
MatchVins == {EmptyStr, StrV1}

MatchCellRows(n) ==
    {r \in [1..n -> MatchFirstCells \cup MatchOtherCells] :
        \A j \in 2..n : r[j] \in MatchOtherCells}

InitMatch ==
    /\ pc = "read"
    /\ \E n \in 1..MatchMaxCols, m \in 1..MatchMaxRows :
          \E cols \in Layouts(MatchColNames, n), cr \in [1..m -> MatchCellRows(n)] :
              raw_df = MakeDF(cols, cr)
    /\ excel_df = Ok(EmptyDF)
    /\ again_df = Ok(EmptyDF)
    /\ DateIdle
    /\ \E name \in MatchNames, vin \in MatchVins :
          samsara_data = <<Vehicle(name, name, vin, EmptyStr, NoReading, NoReading)>>
    /\ excel_match = None
    /\ vi = 1
    /\ combined_data = <<>>
    /\ SessionIdle

\* excel_match = find_excel_match(vehicle_name, samsara_vin, excel_df)
FindMatch ==
    /\ pc = "cleaned"
    /\ ~empty(excel_df.value)
    /\ excel_match' = find_excel_match(samsara_data[1].name,
                                       samsara_data[1].externalIds.vin,
                                       excel_df.value)
    /\ pc' = "matched"
    /\ UNCHANGED <<cleanVars, dateVars, sessionVars,
                   samsara_data, vi, combined_data>>

NextMatch == CleanOnce \/ FindMatch

SpecMatch == InitMatch /\ [][NextMatch]_vars

---------------------------------------------------------------------------
(* The reconciliation run: get_excel_data reads and cleans the sheet, then *)
(* process_combined_data walks the telematics list.                        *)

PipeMaxRows == 3
PipeMaxVehicles == 2

StrTBD == <<"T","B","D">>
StrStamp == <<"2","0","2","6","-","1","1","-","0","1","T","0","8",":","0","0","Z">>

\* headers of the sheet: the truck column, the compliance columns, with or
\* without a blank first header and a VIN column
FleetLayouts ==
    {prefix \o <<ColTruck, ColStatus, ColAnnual, ColPmDate, ColPmInsp>> \o suffix :
        prefix \in {<<>>, <<ColUnnamed0>>}, suffix \in {<<>>, <<ColVin>>}}

\* what a line of the sheet says about the truck
RowProfiles ==
    {[truck |-> StrOLD, vin |-> StrV2], [truck |-> StrT1, vin |-> StrV2],
     [truck |-> StrT2, vin |-> StrV1], [truck |-> StrT1, vin |-> StrV1]}

\* the cell of line i (0-based) under the header col; the compliance cells
\* differ from line to line
SheetCell(col, i, p) ==
    CASE col = ColUnnamed0 -> <<Digits[i + 1]>>
      [] col = ColTruck -> p.truck
      [] col = ColVin -> p.vin
      [] col = ColStatus -> <<"S", Digits[i + 1]>>
      [] col = ColAnnual -> strftime(<<2026, 11, i + 1>>, date_formats[(i % 4) + 1])
      [] col = ColPmDate -> strftime(<<2027, 1, i + 1>>, FmtSlash)
      [] col = ColPmInsp -> CASE i % 3 = 0 -> NaN
                              [] i % 3 = 1 -> StrTBD
                              [] OTHER -> strftime(<<2026, 12, i + 1>>, FmtIso)

SheetDF(columns, profiles) ==
    MakeDF(columns, [i \in 1..Len(profiles) |->
                        [j \in 1..Len(columns) |->
                            SheetCell(columns[j], i - 1, profiles[i])]])

FleetVehicles ==
    {Vehicle(<<"1">>, StrT1, EmptyStr, <<"A">>,
             Some([value |-> 160934, time |-> StrStamp]), NoReading),
     Vehicle(<<"2">>, StrX9, StrV1, <<"B">>,
             NoReading, Some([value |-> 80467, time |-> StrStamp])),
     Vehicle(<<"3">>, StrX9, EmptyStr, <<"C">>, NoReading, NoReading)}

Init ==
    /\ pc = "read"
    /\ \E m \in 0..PipeMaxRows :
          \E cols \in FleetLayouts, profiles \in [1..m -> RowProfiles] :
              raw_df = SheetDF(cols, profiles)
    /\ excel_df = Ok(EmptyDF)
    /\ again_df = Ok(EmptyDF)
    /\ now = [ordinal |-> toordinal(2026, 11, 2), second |-> 43200]
    /\ offset = 0
    /\ date_value = EmptyStr
    /\ days_remaining = None
    /\ alert = "No Data"
    /\ \E n \in 0..PipeMaxVehicles : samsara_data \in [1..n -> FleetVehicles]
    /\ excel_match = None
    /\ vi = 1
    /\ combined_data = <<>>
    /\ SessionIdle

\* get_excel_data: the cleaned table, or pd.DataFrame() when cleaning raised
GetExcelData ==
    /\ pc = "read"
    /\ excel_df' = IF clean_excel_data(raw_df).exc = "none"
                   THEN clean_excel_data(raw_df)
                   ELSE Ok(EmptyDF)
    /\ pc' = "fetched"
    /\ UNCHANGED <<raw_df, again_df, dateVars, fleetVars, sessionVars>>

\* process_combined_data up to its loop
ProcessStart ==
    /\ pc = "fetched"
    /\ combined_data' = <<>>
    /\ vi' = 1
    /\ pc' = IF samsara_data = <<>> \/ empty(excel_df.value)
             THEN "returned" ELSE "loop"
    /\ UNCHANGED <<cleanVars, dateVars, samsara_data, excel_match, sessionVars>>

\* one pass of 'for vehicle in samsara_data'
ProcessVehicle ==
    /\ pc = "loop"
    /\ vi <= Len(samsara_data)
    /\ LET vehicle == samsara_data[vi]
           found == find_excel_match(vehicle.name, vehicle.externalIds.vin,
                                     excel_df.value)
       IN /\ excel_match' = found
          /\ IF found = None
             THEN /\ vi' = vi + 1
                  /\ UNCHANGED <<pc, combined_data>>
             ELSE IF ~IlocInBounds(found[1], excel_df.value)
             THEN /\ pc' = "raised"             \* IndexError leaves the function
                  /\ UNCHANGED <<vi, combined_data>>
             ELSE /\ combined_data' =
                        Append(combined_data,
                               combined_info(vehicle,
                                             extract_excel_data(found[1], excel_df.value),
                                             now))
                  /\ vi' = vi + 1
                  /\ UNCHANGED pc
    /\ UNCHANGED <<cleanVars, dateVars, samsara_data, sessionVars>>

\* return pd.DataFrame(combined_data)
ProcessReturn ==
    /\ pc = "loop"
    /\ vi > Len(samsara_data)
    /\ pc' = "returned"
    /\ UNCHANGED <<cleanVars, dateVars, fleetVars, sessionVars>>

Next == GetExcelData \/ ProcessStart \/ ProcessVehicle \/ ProcessReturn

Spec == Init /\ [][Next]_vars

---------------------------------------------------------------------------
(* The calls of main, each as one value: get_excel_data on what the        *)
(* request returned, process_combined_data on its two arguments,           *)
(* create_metrics_summary on the table of records.                         *)

\* get_excel_data: response is None when the request failed or its status
\* was not 200, else the table read_csv built from its text
get_excel_data(response) ==
    IF response = None THEN EmptyDF
    ELSE IF clean_excel_data(response[1]).exc = "none"
         THEN clean_excel_data(response[1]).value
         ELSE EmptyDF

\* for vehicle in samsara_data[k..], combined the list built so far
RECURSIVE ProcessVehicles(_, _, _, _, _)
ProcessVehicles(vehicles, k, df, today, combined) ==
    IF k > Len(vehicles) THEN [exc |-> "none", value |-> combined]
    ELSE LET vehicle == vehicles[k]
             found == find_excel_match(vehicle.name, vehicle.externalIds.vin, df)
         IN IF found = None
            THEN ProcessVehicles(vehicles, k + 1, df, today, combined)
            ELSE IF ~IlocInBounds(found[1], df)
            THEN [exc |-> "IndexError", value |-> <<>>]
            ELSE ProcessVehicles(vehicles, k + 1, df, today,
                     Append(combined,
                            combined_info(vehicle,
                                          extract_excel_data(found[1], df),
                                          today)))

\* process_combined_data: the rows of the DataFrame returned, or the
\* exception that left the call
process_combined_data(vehicles, df, today) ==
    IF vehicles = <<>> \/ empty(df) THEN [exc |-> "none", value |-> <<>>]
    ELSE ProcessVehicles(vehicles, 1, df, today, <<>>)

\* the sum of numbers[k..], for Series.mean()
RECURSIVE SumOf(_, _)
SumOf(numbers, k) ==
    IF k > Len(numbers) THEN 0 ELSE numbers[k] + SumOf(numbers, k + 1)

\* the threshold of high_mileage_count
HighMileage == 400000

\* create_metrics_summary; a quotient is kept as [num, den]
create_metrics_summary(df) ==
    LET AnnualIs(label) == Len(SelectSeq(df, LAMBDA r : r.Annual_Alert = label))
        PmIs(label) == Len(SelectSeq(df, LAMBDA r : r.PM_Alert = label))
        miles == [k \in 1..Len(df) |-> df[k].OBD_Odometer_Miles]
        fully_compliant ==
            Len(SelectSeq(df, LAMBDA r : r.Annual_Alert = "OK" /\ r.PM_Alert = "OK"))
    IN [total_vehicles |-> Len(df),
        annual_ok |-> AnnualIs("OK"),
        annual_overdue |-> AnnualIs("OVERDUE"),
        annual_critical |-> AnnualIs("CRITICAL"),
        pm_ok |-> PmIs("OK"),
        pm_overdue |-> PmIs("OVERDUE"),
        pm_critical |-> PmIs("CRITICAL"),
        avg_mileage |-> [num |-> SumOf(miles, 1), den |-> Len(df)],
        max_mileage |-> CHOOSE m \in {miles[k] : k \in 1..Len(df)} :
                            \A k \in 1..Len(df) : miles[k] <= m,
        high_mileage_count |-> Len(SelectSeq(miles, LAMBDA m : m > HighMileage)),
        fleet_health |-> IF Len(df) > 0
                         THEN [num |-> fully_compliant * 100, den |-> Len(df)]
                         ELSE [num |-> 0, den |-> 1]]

---------------------------------------------------------------------------
(* main of fleet_dashboard_auto.py: one script run is RunStart, then Load, *)
(* then Render unless the run returned before; between runs and while a    *)
(* run fetches, time passes.                                               *)

\* the keys set when 'fleet_data_loaded' is not in st.session_state
NewSession ==
    [fleet_data_loaded |-> FALSE, combined_df |-> None, metrics |-> None,
     last_update |-> None]

\* (later - earlier).total_seconds()
total_seconds(later, earlier) ==
    (later.ordinal - earlier.ordinal) * SecondsPerDay + later.second - earlier.second

\* the cache marked stale once the interval is reached
IsStaleAtInterval(elapsed, interval) == elapsed >= interval

\* time_since_update > refresh_interval
IsStale(elapsed, interval) == elapsed > interval

\* the button handler without its first assignment
ClearCacheKeepFlag(state) ==
    [state EXCEPT !.combined_df = None, !.metrics = None]

\* the three assignments of the 'Refresh Data' button
ClearCache(state) ==
    [state EXCEPT !.fleet_data_loaded = FALSE, !.combined_df = None,
                  !.metrics = None]

\* the branch of the load block that the fetched values select
fetch_outcome(vehicles, df, result) ==
    IF vehicles # <<>> /\ ~empty(df)
    THEN (IF result.exc # "none" THEN "exception"
          ELSE IF result.value # <<>> THEN "success"
          ELSE "warning")
    ELSE "error"

\* the assignments without the one to last_update
StoreFetchedKeepsTime(state, combined_df, today) ==
    [state EXCEPT !.combined_df = Some(combined_df),
                  !.metrics = Some(create_metrics_summary(combined_df)),
                  !.fleet_data_loaded = TRUE]

\* the four assignments that cache a fetched result
StoreFetched(state, combined_df, today) ==
    [state EXCEPT !.combined_df = Some(combined_df),
                  !.metrics = Some(create_metrics_summary(combined_df)),
                  !.fleet_data_loaded = TRUE,
                  !.last_update = Some(today)]

SessionMaxClock == 70

\* seconds between two moments at which something happens
SessionSteps == {10, 30}

\* what get_samsara_stats can return
SessionFeeds ==
    {<<>>,
     <<Vehicle(<<"1">>, StrT1, EmptyStr, <<"A">>,
               Some([value |-> 160934, time |-> StrStamp]), NoReading)>>,
     <<Vehicle(<<"3">>, StrX9, EmptyStr, <<"C">>, NoReading, NoReading)>>}

SessionColumns == <<ColTruck, ColStatus, ColAnnual, ColPmDate, ColPmInsp>>

\* what the request of get_excel_data can bring: nothing, or a sheet of the
\* truck T1, of a truck marked OLD, of both
SessionSheets ==
    {None,
     Some(SheetDF(SessionColumns, <<[truck |-> StrT1, vin |-> StrV1]>>)),
     Some(SheetDF(SessionColumns, <<[truck |-> StrOLD, vin |-> StrV2]>>)),
     Some(SheetDF(SessionColumns, <<[truck |-> StrOLD, vin |-> StrV2],
                                    [truck |-> StrT1, vin |-> StrV1]>>))}

InitSession ==
    /\ pc = "idle"
    /\ CleanIdle
    /\ now = [ordinal |-> toordinal(2026, 11, 2), second |-> 0]
    /\ offset = 0
    /\ date_value = EmptyStr
    /\ days_remaining = None
    /\ alert = "No Data"
    /\ FleetIdle
    /\ SessionIdle

\* time passes between two runs, or while a run is about to fetch
Tick ==
    /\ pc \in {"idle", "load"}
    /\ \E d \in SessionSteps :
          /\ now.second + d <= SessionMaxClock
          /\ now' = [now EXCEPT !.second = @ + d]
    /\ UNCHANGED <<pc, cleanVars, fleetVars, sessionVars,
                   offset, date_value, days_remaining, alert>>

\* a run from its start to the load block: the widgets are read, the
\* session keys are set if missing, then the auto-refresh test and the
\* 'Refresh Data' button.  The first run of a session reads the defaults;
\* the run that st.rerun() starts reads what the run before it read.
RunStart ==
    /\ pc \in {"idle", "rerun"}
    /\ \E clicked \in BOOLEAN, checked \in BOOLEAN, k \in 1..Len(refresh_intervals) :
          /\ session_state = NoSession => (~clicked /\ ~checked /\ k = 2)
          /\ pc = "rerun" =>
                (~clicked /\ checked = auto_refresh
                          /\ refresh_intervals[k] = refresh_interval)
          /\ auto_refresh' = checked
          /\ refresh_interval' = refresh_intervals[k]
          /\ LET state0 == IF "fleet_data_loaded" \notin DOMAIN session_state
                           THEN NewSession ELSE session_state
                 elapsed == IF checked /\ state0.last_update # None
                            THEN Some(total_seconds(now, state0.last_update[1]))
                            ELSE None
                 state1 == IF elapsed # None
                              /\ IsStale(elapsed[1], refresh_intervals[k])
                           THEN [state0 EXCEPT !.fleet_data_loaded = FALSE]
                           ELSE state0
                 banner == IF state1.fleet_data_loaded THEN "ready" ELSE "loading"
             IN /\ time_since_update' = elapsed
                /\ shown' = {banner}
                /\ IF clicked
                   THEN /\ session_state' = ClearCache(state1)
                        /\ pc' = "rerun"                   \* st.rerun()
                   ELSE /\ session_state' = state1
                        /\ pc' = "load"
    /\ raw_df' = EmptyDF
    /\ excel_df' = Ok(EmptyDF)
    /\ samsara_data' = <<>>
    /\ combined_data' = <<>>
    /\ UNCHANGED <<again_df, dateVars, excel_match, vi>>

\* the load block: nothing when the data is loaded, else the two fetches,
\* process_combined_data and the branch its result selects
Load ==
    /\ pc = "load"
    /\ IF session_state.fleet_data_loaded
       THEN /\ pc' = "render"
            /\ UNCHANGED <<raw_df, excel_df, samsara_data, combined_data,
                           session_state, shown>>
       ELSE \E vehicles \in SessionFeeds, response \in SessionSheets :
               LET df == get_excel_data(response)
                   result == IF vehicles # <<>> /\ ~empty(df)
                             THEN process_combined_data(vehicles, df, now)
                             ELSE [exc |-> "none", value |-> <<>>]
                   outcome == fetch_outcome(vehicles, df, result)
               IN /\ samsara_data' = vehicles
                  /\ raw_df' = IF response = None THEN EmptyDF ELSE response[1]
                  /\ excel_df' = Ok(df)
                  /\ combined_data' = result.value
                  /\ shown' = shown \cup {"spinner", outcome}
                  /\ IF outcome = "success"
                     THEN /\ session_state' =
                                StoreFetched(session_state, result.value, now)
                          /\ pc' = "render"
                     ELSE /\ session_state' = session_state
                          /\ pc' = "idle"                  \* return, or the exception
    /\ UNCHANGED <<again_df, dateVars, excel_match, vi,
                   auto_refresh, refresh_interval, time_since_update>>

\* the rest of main: the fleet view, from the cached table and metrics
Render ==
    /\ pc = "render"
    /\ shown' = IF /\ session_state.fleet_data_loaded
                   /\ session_state.combined_df # None
                THEN shown \cup {"view"} ELSE shown
    /\ pc' = "idle"
    /\ UNCHANGED <<cleanVars, dateVars, fleetVars, session_state,
                   auto_refresh, refresh_interval, time_since_update>>

NextSession == Tick \/ RunStart \/ Load \/ Render

SpecSession == InitSession /\ [][NextSession]_vars

---------------------------------------------------------------------------
(* The record run: the same calls on a sheet of one truck whose three date *)
(* cells hold dates in every supported format, dates that do not exist,    *)
(* other text, or nothing.                                                 *)

\* texts of date cells: dates in the four formats, dates that do not exist,
\* a date without padding, a two-digit year
DateText ==
    [mdY |-> <<"0","3","/","0","4","/","2","0","2","5">>,
     month13 |-> <<"1","3","/","0","4","/","2","0","2","5">>,
     feb30 |-> <<"0","2","/","3","0","/","2","0","2","5">>,
     unpadded |-> <<"3","/","4","/","2","0","2","5">>,
     year2 |-> <<"0","3","/","0","4","/","2","5">>,
     iso |-> <<"2","0","2","5","-","0","3","-","0","4">>,
     dot |-> <<"0","4",".","0","3",".","2","0","2","5">>,
     dash |-> <<"0","3","-","0","4","-","2","0","2","5">>,
     today |-> <<"1","1","/","0","2","/","2","0","2","6">>,
     month |-> <<"1","2","/","0","3","/","2","0","2","6">>,
     months2 |-> <<"0","1","/","0","2","/","2","0","2","7">>]

\* what a date cell of the sheet can hold
DateCells == {NaN, StrTBD} \cup {DateText[k] : k \in DOMAIN DateText}

RecordColumns == <<ColTruck, ColAnnual, ColPmDate, ColPmInsp>>

InitRecord ==
    /\ pc = "read"
    /\ \E a \in DateCells, p \in DateCells, i \in DateCells :
          raw_df = MakeDF(RecordColumns, <<<<StrT1, a, p, i>>>>)
    /\ excel_df = Ok(EmptyDF)
    /\ again_df = Ok(EmptyDF)
    /\ \E s \in {0, 43200} :
          now = [ordinal |-> toordinal(2026, 11, 2), second |-> s]
    /\ offset = 0
    /\ date_value = EmptyStr
    /\ days_remaining = None
    /\ alert = "No Data"
    /\ \E v \in FleetVehicles : samsara_data = <<v>>
    /\ excel_match = None
    /\ vi = 1
    /\ combined_data = <<>>
    /\ SessionIdle

SpecRecord == InitRecord /\ [][Next]_vars

---------------------------------------------------------------------------
(* The extraction run: the same calls on a sheet of one truck whose        *)
(* compliance columns vary in number, name and order, several of them      *)
(* passing the test of the same role or of two roles.                      *)

ExtractMaxCols == 3

\* further headers: a second 'Annual' as read_csv names it, headers that
\* pass the tests of two roles, a header that passes none
Header ==
    [annual_dup |-> <<"A","n","n","u","a","l",".","1">>,
     pm_insp_date |-> <<"P","M"," ","I","n","s","p"," ","D","a","t","e">>,
     annual_status |-> <<"A","n","n","u","a","l"," ","S","t","a","t","u","s">>,
     notes |-> <<"N","o","t","e","s">>]

ExtractColNames ==
    {ColStatus, ColAnnual, ColPmDate, ColPmInsp} \cup
    {Header[k] : k \in DOMAIN Header}

\* the cell of the truck's line under the header at position j: a value of
\* its own, or nothing
ExtractCell(j, blank) == IF blank THEN NaN ELSE <<"v", Digits[j + 1]>>

InitExtract ==
    /\ pc = "read"
    /\ \E n \in 0..ExtractMaxCols :
          \E cols \in Layouts(ExtractColNames, n), blanks \in [1..n -> BOOLEAN] :
              raw_df = MakeDF(<<ColTruck>> \o cols,
                              <<<<StrT1>> \o [j \in 1..n |-> ExtractCell(j, blanks[j])]>>)
    /\ excel_df = Ok(EmptyDF)
    /\ again_df = Ok(EmptyDF)
    /\ now = [ordinal |-> toordinal(2026, 11, 2), second |-> 43200]
    /\ offset = 0
    /\ date_value = EmptyStr
    /\ days_remaining = None
    /\ alert = "No Data"
    /\ \E v \in FleetVehicles : samsara_data = <<v>>
    /\ excel_match = None
    /\ vi = 1
    /\ combined_data = <<>>
    /\ SessionIdle

SpecExtract == InitExtract /\ [][Next]_vars

---------------------------------------------------------------------------
(* Properties of clean_excel_data (specification SpecClean) *)

ExcludedLiterals == {StrOLD, StrDKD, StrGNS, StrSOLD}

\* 1-based position, in the raw table, of the column the row filter reads
FirstKeptPos(df) == IF startswith(df.columns[1], StrUnnamed) THEN 2 ELSE 1

\* the raw columns without a dropped leading placeholder
KeptColumns(df) == SubSeq(df.columns, FirstKeptPos(df), Len(df.columns))

Cleaned == pc \in {"cleaned", "recleaned"} \/ (pc = "raised" /\ excel_df.exc = "none")

CleanedTwice == pc = "recleaned" \/ (pc = "raised" /\ excel_df.exc = "none")

\* C4 as stated: clean_excel_data is idempotent: whenever clean(t) has
\* returned, clean(clean(t)) returns, with the same columns and the same rows.
C4_CleanIdempotentAsStated == CleanedTwice => again_df = excel_df

\* C4 as amended: clean(clean(t)) has the columns and the rows of clean(t)
\* whenever clean(t) is empty or its first column name does not start with
\* 'Unnamed'.
C4_CleanIdempotent ==
    (/\ CleanedTwice
     /\ \/ empty(excel_df.value)
        \/ ~startswith(excel_df.value.columns[1], StrUnnamed))
        => again_df = excel_df

\* a second pass over a table from which the first pass dropped the
\* placeholder, a row and the column after the VIN one
C4_Witness ==
    /\ pc = "recleaned"
    /\ raw_df.columns = <<ColUnnamed0, ColVin, ColTruck>>
    /\ Len(raw_df.rows) = 2
    /\ Len(excel_df.value.rows) = 1
    /\ excel_df.value.columns = <<ColVin>>
    /\ again_df = excel_df

\* C5: clean_excel_data has no error outcome: the call on the table that
\* read_csv returned completes and returns a table.
C5_CleanNeverRaises == excel_df.exc = "none"

\* C9: after clean_excel_data no row has OLD, DKD, GNS or SOLD in the first
\* column, and the rows of the input whose first-column value (first column
\* after a leading Unnamed column was dropped) is none of the four literals
\* are all present, in their original order.
C9_ExcludedRowsRemoved ==
    (Cleaned /\ ~empty(raw_df)) =>
        LET f == FirstKeptPos(raw_df)
            out == excel_df.value
            IsRetained(row) == row.cells[f] \notin ExcludedLiterals
            expected == SelectSeq(raw_df.rows, IsRetained)
        IN /\ \A k \in 1..Len(out.rows) : out.rows[k].cells[1] \notin ExcludedLiterals
           /\ Len(out.rows) = Len(expected)
           /\ \A k \in 1..Len(out.rows) :
                 /\ out.rows[k].label = expected[k].label
                 /\ out.rows[k].cells =
                       SubSeq(expected[k].cells, f, f + Len(out.columns) - 1)

\* a run that removed the OLD row ahead of a row holding the case variant
\* 'old', which it kept under its own label
C9_Witness ==
    /\ pc = "cleaned"
    /\ Len(raw_df.rows) = 2
    /\ FirstKeptPos(raw_df) = 1
    /\ raw_df.rows[1].cells[1] = StrOLD
    /\ raw_df.rows[2].cells[1] = StrOldLower
    /\ Len(excel_df.value.rows) = 1
    /\ excel_df.value.rows[1].label = 1
    /\ excel_df.value.rows[1].cells[1] = StrOldLower

\* C10 as stated: on a table with at least one row, if some column name
\* holds VIN the leftmost such column is the last column of the result and
\* every column before it is retained in order; otherwise every column other
\* than a dropped leading Unnamed column is retained.
C10_VinTrimAsStated ==
    (Cleaned /\ Len(raw_df.rows) >= 1) =>
        IF VinIndex(raw_df.columns) # -1
        THEN excel_df.value.columns =
                SubSeq(raw_df.columns, 1, VinIndex(raw_df.columns) + 1)
        ELSE excel_df.value.columns = KeptColumns(raw_df)

\* C10 as amended: the columns meant are those left after a leading Unnamed
\* column was dropped.  If one of them holds VIN, the leftmost such column is
\* the last column of the result and the columns before it (the dropped
\* placeholder aside) are retained in order; if none does, all are retained.
C10_VinTrim ==
    (Cleaned /\ Len(raw_df.rows) >= 1) =>
        LET kept == KeptColumns(raw_df)
            out == excel_df.value.columns
        IN IF \E j \in 1..Len(kept) : IsVinColumn(kept[j])
           THEN /\ Len(out) >= 1
                /\ out = SubSeq(kept, 1, Len(out))
                /\ IsVinColumn(out[Len(out)])
                /\ \A j \in 1..(Len(out) - 1) : ~IsVinColumn(out[j])
           ELSE out = kept

\* a run that dropped the leading placeholder and a column after the VIN one
C10_Witness ==
    /\ pc = "cleaned"
    /\ Len(raw_df.rows) >= 1
    /\ raw_df.columns = <<ColUnnamed0, ColVin, ColTruck>>
    /\ excel_df.value.columns = <<ColVin>>

---------------------------------------------------------------------------
(* Properties of calculate_days_remaining (specification SpecDays) *)

\* C6: calculate_days_remaining round-trips: the text of 'today + N days'
\* in a supported format yields N at whatever instant of the day it is
\* evaluated; today yields 0 and tomorrow yields 1.
C6_DaysRoundTrip ==
    pc \in {"days", "alert"} => days_remaining = Some(offset)

---------------------------------------------------------------------------
(* Properties of get_alert_status (specification SpecAlert) *)

\* C7: get_alert_status is total with exactly these tiers: absent is
\* 'No Data', d < 0 is 'OVERDUE', 0..30 is 'CRITICAL', 31..60 is 'WARNING',
\* d > 60 is 'OK'; every input gets one of the five labels.
C7_AlertTiers ==
    pc = "alert" =>
        /\ alert \in AlertLabels
        /\ days_remaining = None => alert = "No Data"
        /\ days_remaining # None =>
              LET d == days_remaining[1]
              IN /\ d < 0 => alert = "OVERDUE"
                 /\ (0 <= d /\ d <= 30) => alert = "CRITICAL"
                 /\ (31 <= d /\ d <= 60) => alert = "WARNING"
                 /\ d > 60 => alert = "OK"

\* the last day of the CRITICAL tier has been classified
C7_Witness ==
    /\ pc = "alert"
    /\ days_remaining = Some(30)
    /\ alert = "CRITICAL"

---------------------------------------------------------------------------
(* Properties of find_excel_match (specification SpecMatch) *)

\* row i of df holds key, stringified, in column j
CellIs(df, i, j, key) == astype_str(df.rows[i].cells[j]) = key

\* the columns of a phase in which some row holds key
HitColumns(df, phase, key) ==
    {j \in 1..Len(df.columns) :
        /\ IsCandidate(phase, df.columns[j])
        /\ \E i \in 1..Len(df.rows) : CellIs(df, i, j, key)}

\* the label of the first row holding key in the leftmost column of hits
FirstHit(df, hits, key) ==
    LET j == CHOOSE c \in hits : \A h \in hits : c <= h
        i == CHOOSE r \in 1..Len(df.rows) :
                 /\ CellIs(df, r, j, key)
                 /\ \A q \in 1..(r - 1) : ~CellIs(df, q, j, key)
    IN df.rows[i].label

\* C3: a name match has priority over the VIN.  Whenever some row of a
\* TRUCK/ID column equals the vehicle name, the result is the first such row
\* (of the leftmost such column that has one), whatever the VIN; the VIN
\* column is consulted only when no row matches by name and the VIN is not
\* empty, and then gives the first row whose VIN cell equals it; otherwise
\* the result is None.
C3_NameBeforeVin ==
    pc = "matched" =>
        LET df == excel_df.value
            name == samsara_data[1].name
            vin == samsara_data[1].externalIds.vin
            byName == HitColumns(df, "name", name)
            byVin == HitColumns(df, "vin", vin)
        IN IF byName # {}
           THEN excel_match = Some(FirstHit(df, byName, name))
           ELSE IF vin # EmptyStr /\ byVin # {}
                THEN excel_match = Some(FirstHit(df, byVin, vin))
                ELSE excel_match = None

\* the vehicle's VIN is the VIN cell of the first row, its name the name
\* cell of the second row, and the second row is the result
C3_Witness ==
    /\ pc = "matched"
    /\ excel_df.value.columns = <<ColTruck, ColVin>>
    /\ Len(excel_df.value.rows) = 2
    /\ samsara_data[1].name = StrT1
    /\ samsara_data[1].externalIds.vin = StrV1
    /\ excel_df.value.rows[1].cells = <<StrV1, StrV1>>
    /\ excel_df.value.rows[2].cells = <<StrT1, StrT1>>
    /\ excel_match = Some(excel_df.value.rows[2].label)

\* the columns a phase may search
Candidates(df, phase) ==
    {j \in 1..Len(df.columns) : IsCandidate(phase, df.columns[j])}

\* what a phase gives when only its leftmost candidate column is consulted
LeftmostOnly(df, phase, key) ==
    LET cands == Candidates(df, phase)
        hits == HitColumns(df, phase, key)
    IN IF cands # {} /\ (CHOOSE c \in cands : \A h \in cands : c <= h) \in hits
       THEN Some(FirstHit(df, {CHOOSE c \in cands : \A h \in cands : c <= h}, key))
       ELSE None

\* C13 as stated: each phase consults only its leftmost candidate column:
\* when the leftmost TRUCK/ID column has no row equal to the name the name
\* phase fails, whatever a later TRUCK/ID column holds, and the VIN phase
\* consults only the leftmost VIN column.
C13_LeftmostColumnOnlyAsStated ==
    pc = "matched" =>
        LET df == excel_df.value
            name == samsara_data[1].name
            vin == samsara_data[1].externalIds.vin
        IN IF LeftmostOnly(df, "name", name) # None
           THEN excel_match = LeftmostOnly(df, "name", name)
           ELSE IF vin # EmptyStr
                THEN excel_match = LeftmostOnly(df, "vin", vin)
                ELSE excel_match = None

\* C13 as amended: the name phase consults the TRUCK/ID columns from left to
\* right and the first of them that has a row equal to the name gives the
\* result; it fails only when none of them has such a row.  The VIN phase
\* consults the leftmost VIN column.
C13_NameColumnsLeftToRight ==
    pc = "matched" =>
        LET df == excel_df.value
            name == samsara_data[1].name
            vin == samsara_data[1].externalIds.vin
            cands == Candidates(df, "name")
        IN /\ \A j \in cands :
                 (/\ \E i \in 1..Len(df.rows) : CellIs(df, i, j, name)
                  /\ \A h \in cands :
                        h < j => \A i \in 1..Len(df.rows) : ~CellIs(df, i, h, name))
                     => excel_match = Some(FirstHit(df, {j}, name))
           /\ (\A j \in cands : \A i \in 1..Len(df.rows) : ~CellIs(df, i, j, name))
                 => excel_match = IF vin # EmptyStr
                                  THEN LeftmostOnly(df, "vin", vin)
                                  ELSE None

\* the name is not in the Truck column and is found in the Unit ID column
\* to its right
C13_Witness ==
    /\ pc = "matched"
    /\ excel_df.value.columns = <<ColTruck, ColUnitId>>
    /\ Len(excel_df.value.rows) = 1
    /\ excel_df.value.rows[1].cells = <<StrV1, StrT1>>
    /\ samsara_data[1].name = StrT1
    /\ excel_match = Some(excel_df.value.rows[1].label)

---------------------------------------------------------------------------
(* Properties of process_combined_data (specification Spec) *)

\* the row of df that carries the index label
RowLabelled(df, label) ==
    df.rows[CHOOSE i \in 1..Len(df.rows) : df.rows[i].label = label]

\* the text of the row's cell under the header col, '' without that column
TextUnder(df, row, col) ==
    IF \E j \in 1..Len(df.columns) : df.columns[j] = col
    THEN CellText(row.cells[ColumnPos(df, col)])
    ELSE EmptyStr

\* C1: row references stay stable: the Status, Annual_Date, PM_Date and
\* PM_Insp_Date of a vehicle's record are the cells of the row that
\* find_excel_match resolved the vehicle to, also when clean_excel_data
\* removed rows ahead of it.
C1_RowReferencesStable ==
    \A k \in 1..Len(combined_data) :
        LET df == excel_df.value
            rec == combined_data[k]
            row == RowLabelled(df, find_excel_match(rec.Vehicle_Name, rec.VIN, df)[1])
        IN /\ rec.Status = TextUnder(df, row, ColStatus)
           /\ rec.Annual_Date = TextUnder(df, row, ColAnnual)
           /\ rec.PM_Date = TextUnder(df, row, ColPmDate)
           /\ rec.PM_Insp_Date = TextUnder(df, row, ColPmInsp)

\* C2: process_combined_data never raises: every row index that
\* find_excel_match returns is a valid argument of extract_excel_data.
C2_ProcessNeverRaises == pc # "raised"

\* the vehicles find_excel_match resolves to a row, in input order
MatchedVehicles ==
    LET IsMatched(v) ==
            find_excel_match(v.name, v.externalIds.vin, excel_df.value) # None
    IN SelectSeq(samsara_data, IsMatched)

\* C8: the call ends by returning one record per matched vehicle, in input
\* order, and nothing for the others.
C8_OutputIsMatchedSubsequence ==
    pc \in {"returned", "raised"} =>
        /\ pc = "returned"
        /\ Len(combined_data) = Len(MatchedVehicles)
        /\ \A k \in 1..Len(combined_data) :
              /\ combined_data[k].Vehicle_ID = MatchedVehicles[k].id
              /\ combined_data[k].Vehicle_Name = MatchedVehicles[k].name
              /\ combined_data[k].VIN = MatchedVehicles[k].externalIds.vin

---------------------------------------------------------------------------
(* Properties of the date fields of a record (specification SpecRecord) *)

\* the formats, by position in date_formats, that accept the text
Accepting(text) ==
    {k \in 1..Len(date_formats) : strptime(text, date_formats[k]) # -1}

\* the field is empty or matches none of the formats
Unparsable(text) == text = EmptyStr \/ Accepting(text) = {}

\* the day number of the date that the earliest accepting format reads
EarliestReading(text) ==
    strptime(text, date_formats[CHOOSE k \in Accepting(text) :
                                    \A h \in Accepting(text) : k <= h])

\* the keys of a record that belong to one date field
DateFieldKeys ==
    {[date |-> "Annual_Date", days |-> "Annual_Days_Remaining",
      alert |-> "Annual_Alert"],
     [date |-> "PM_Date", days |-> "PM_Days_Remaining", alert |-> "PM_Alert"],
     [date |-> "PM_Insp_Date", days |-> "PM_Insp_Days_Remaining",
      alert |-> "PM_Insp_Alert"]}

\* C11: a date field that is empty (a null cell) or matches none of the four
\* formats gets no day-offset and the alert 'No Data', without an exception;
\* in a record with such a field, every other field that parses has the
\* day-offset and the alert its own text gives.
C11_UnparsableIsAbsent ==
    /\ pc # "raised"
    /\ \A k \in 1..Len(combined_data) :
          LET rec == combined_data[k]
          IN /\ \A f \in DateFieldKeys :
                   Unparsable(rec[f.date]) =>
                       (rec[f.days] = None /\ rec[f.alert] = "No Data")
             /\ (\E f \in DateFieldKeys : Unparsable(rec[f.date])) =>
                   \A g \in DateFieldKeys :
                       ~Unparsable(rec[g.date]) =>
                           /\ rec[g.days] =
                                 Some(timedelta_days(EarliestReading(rec[g.date]), now))
                           /\ rec[g.alert] # "No Data"

\* a record whose annual text has no month 13, whose PM-inspection cell is
\* null and whose PM date parses
C11_Witness ==
    /\ pc = "returned"
    /\ Len(combined_data) = 1
    /\ raw_df.rows[1].cells[4] = NaN
    /\ combined_data[1].Annual_Date = DateText.month13
    /\ combined_data[1].Annual_Alert = "No Data"
    /\ combined_data[1].PM_Insp_Date = EmptyStr
    /\ combined_data[1].PM_Insp_Alert = "No Data"
    /\ combined_data[1].PM_Date = DateText.month
    /\ combined_data[1].PM_Days_Remaining = Some(30)
    /\ combined_data[1].PM_Alert = "CRITICAL"

\* C12: in every record each alert is get_alert_status of the day-offset of
\* the same field, and each day-offset comes from the date text of the same
\* field: it is absent exactly when that text is empty or unparsable.
C12_AlertsFromOwnField ==
    \A k \in 1..Len(combined_data) :
        LET rec == combined_data[k]
        IN \A f \in DateFieldKeys :
               /\ rec[f.alert] = get_alert_status(rec[f.days])
               /\ (rec[f.days] = None) <=> Unparsable(rec[f.date])
               /\ ~Unparsable(rec[f.date]) =>
                     rec[f.days] =
                         Some(timedelta_days(EarliestReading(rec[f.date]), now))

\* a record whose three fields are in three different tiers
C12_Witness ==
    /\ pc = "returned"
    /\ Len(combined_data) = 1
    /\ combined_data[1].Annual_Date = DateText.mdY
    /\ combined_data[1].Annual_Alert = "OVERDUE"
    /\ combined_data[1].PM_Date = DateText.month
    /\ combined_data[1].PM_Alert = "WARNING"
    /\ combined_data[1].PM_Insp_Date = DateText.months2
    /\ combined_data[1].PM_Insp_Alert = "OK"

\* the number written by the piece of a slash-separated text
SlashPiece(text, k) == DecimalValue(Pieces(text, "/")[k])

\* C16: the formats are tried in the order month/day/year, year-month-day,
\* day.month.year, month-day-year and the earliest one that accepts the text
\* gives the date of the day-offset; a slash-separated text that parses is
\* read as month, day, year.
C16_FirstFormatWins ==
    \A k \in 1..Len(combined_data) :
        LET rec == combined_data[k]
        IN \A f \in DateFieldKeys :
               LET text == rec[f.date]
               IN /\ date_formats[1].sep = "/"
                  /\ date_formats[2].fields[1] = "%Y"
                  /\ date_formats[3].sep = "."
                  /\ date_formats[4] = [fields |-> <<"%m", "%d", "%Y">>, sep |-> "-"]
                  /\ ~Unparsable(text) =>
                        rec[f.days] =
                            Some(timedelta_days(EarliestReading(text), now))
                  /\ (~Unparsable(text) /\ 1 \in Accepting(text)) =>
                        rec[f.days] =
                            Some(timedelta_days(toordinal(SlashPiece(text, 3),
                                                          SlashPiece(text, 1),
                                                          SlashPiece(text, 2)),
                                                now))

\* '03/04/2025' read as the fourth of March 2025
C16_Witness ==
    /\ pc = "returned"
    /\ Len(combined_data) = 1
    /\ now.second = 0
    /\ combined_data[1].Annual_Date = DateText.mdY
    /\ combined_data[1].Annual_Days_Remaining =
          Some(toordinal(2025, 3, 4) - toordinal(2026, 11, 2))

---------------------------------------------------------------------------
(* Properties of extract_excel_data (specification SpecExtract) *)

\* the four roles, each with the key of the record that shows it
RoleKeys ==
    [status |-> "Status", annual |-> "Annual_Date", pm |-> "PM_Date",
     pm_insp |-> "PM_Insp_Date"]

Roles == DOMAIN RoleKeys

\* the column name passes the test of the role
Satisfies(role, col) ==
    CASE role = "status" -> contains(StrSTATUS, upper(col))
      [] role = "annual" -> contains(StrANNUAL, upper(col))
      [] role = "pm" -> contains(StrPM, upper(col)) /\ contains(StrDATE, upper(col))
      [] role = "pm_insp" -> contains(StrPM, upper(col)) /\ contains(StrINSP, upper(col))

\* the first role, in the order status, annual, PM date, PM inspection,
\* whose test the name passes; "none" when it passes no test
FirstRole(col) ==
    IF Satisfies("status", col) THEN "status"
    ELSE IF Satisfies("annual", col) THEN "annual"
    ELSE IF Satisfies("pm", col) THEN "pm"
    ELSE IF Satisfies("pm_insp", col) THEN "pm_insp"
    ELSE "none"

\* the text of the truck's cell in the rightmost column of a set of columns
RightmostText(df, cols) ==
    LET cell == df.rows[1].cells[CHOOSE j \in cols : \A h \in cols : h <= j]
    IN IF cell = NaN THEN EmptyStr ELSE cell

\* C14 as stated: each test decides its role on its own: the rightmost column
\* whose name passes the test of a role supplies that role, also when the
\* name passes the test of another role as well.
C14_IndependentPredicatesAsStated ==
    \A k \in 1..Len(combined_data) :
        LET df == excel_df.value
        IN \A role \in Roles :
               LET cols == {j \in 1..Len(df.columns) : Satisfies(role, df.columns[j])}
               IN cols # {} =>
                     combined_data[k][RoleKeys[role]] = RightmostText(df, cols)

\* C14 as amended: a column supplies one role only, the first one in the
\* order status, annual, PM date, PM inspection whose test its name passes:
\* its cell is the value of that role unless a column to its right has the
\* same first role, and it supplies no role whose test it passes later in
\* that order.
C14_FirstMatchingRole ==
    \A k \in 1..Len(combined_data) :
        LET df == excel_df.value
            rec == combined_data[k]
        IN /\ \A j \in 1..Len(df.columns) :
                 (/\ FirstRole(df.columns[j]) # "none"
                  /\ \A h \in (j + 1)..Len(df.columns) :
                        FirstRole(df.columns[h]) # FirstRole(df.columns[j]))
                     => rec[RoleKeys[FirstRole(df.columns[j])]] =
                           CellText(df.rows[1].cells[j])
           /\ \A role \in Roles :
                 (\A j \in 1..Len(df.columns) : FirstRole(df.columns[j]) # role)
                     => rec[RoleKeys[role]] = EmptyStr

\* the only PM column is 'PM Insp Date': its cell is the PM date and the
\* PM-inspection date is empty
C14_Witness ==
    /\ pc = "returned"
    /\ Len(combined_data) = 1
    /\ excel_df.value.columns = <<ColTruck, Header.pm_insp_date>>
    /\ excel_df.value.rows[1].cells[2] # NaN
    /\ combined_data[1].PM_Date = excel_df.value.rows[1].cells[2]
    /\ combined_data[1].PM_Insp_Date = EmptyStr

\* C15: a role takes the value of the rightmost column that qualifies for
\* it (the column's name passes the role's test and the test of no role
\* before it), also when that cell is blank and an earlier qualifying column
\* has a value; a role without a qualifying column is empty.
C15_RightmostQualifyingWins ==
    \A k \in 1..Len(combined_data) :
        LET df == excel_df.value
        IN \A role \in Roles :
               LET cols == {j \in 1..Len(df.columns) : FirstRole(df.columns[j]) = role}
               IN combined_data[k][RoleKeys[role]] =
                     IF cols = {} THEN EmptyStr ELSE RightmostText(df, cols)

\* two annual columns, the right one blank: the annual date is empty
C15_Witness ==
    /\ pc = "returned"
    /\ Len(combined_data) = 1
    /\ excel_df.value.columns = <<ColTruck, ColAnnual, Header.annual_dup>>
    /\ excel_df.value.rows[1].cells[2] # NaN
    /\ excel_df.value.rows[1].cells[3] = NaN
    /\ combined_data[1].Annual_Date = EmptyStr
    /\ combined_data[1].Status = EmptyStr

---------------------------------------------------------------------------
(* Properties of the session cache of main (specification SpecSession) *)

\* the session has the key and the flag is set
Loaded(state) ==
    "fleet_data_loaded" \in DOMAIN state /\ state.fleet_data_loaded

\* the step is the start of a run that goes on to the load block, with data
\* loaded and auto-refresh enabled
AutoRefreshRun ==
    /\ pc \in {"idle", "rerun"}
    /\ pc' = "load"
    /\ Loaded(session_state)
    /\ auto_refresh'

\* the step is the load block of a run
LoadStep == pc = "load" /\ pc' # "load"

\* C17 as stated: with auto-refresh enabled and data loaded, a run that
\* starts when the time since last_update is greater than or equal to the
\* interval marks the data stale and fetches in that run; a run that starts
\* with less time elapsed keeps the cached data and does not fetch.
C17_StaleAtIntervalAsStated ==
    [][/\ AutoRefreshRun =>
             LET elapsed == total_seconds(now, session_state.last_update[1])
             IN /\ elapsed >= refresh_interval' => ~session_state'.fleet_data_loaded
                /\ elapsed < refresh_interval' => session_state'.fleet_data_loaded
       /\ LoadStep =>
             ("spinner" \in shown' <=> ~session_state.fleet_data_loaded)]_vars

\* C17 as amended: the data is marked stale, and fetched again in that run,
\* when the time since last_update is greater than the interval; a run that
\* starts with the elapsed time equal to the interval or below it keeps the
\* cached data and does not fetch.
C17_StaleAfterInterval ==
    [][/\ AutoRefreshRun =>
             LET elapsed == total_seconds(now, session_state.last_update[1])
             IN /\ elapsed > refresh_interval' => ~session_state'.fleet_data_loaded
                /\ elapsed <= refresh_interval' => session_state'.fleet_data_loaded
       /\ LoadStep =>
             ("spinner" \in shown' <=> ~session_state.fleet_data_loaded)]_vars

\* a run that found the cache older than the interval has fetched and
\* cached the data anew
C17_Witness ==
    /\ pc = "render"
    /\ auto_refresh
    /\ time_since_update # None
    /\ time_since_update[1] > refresh_interval
    /\ "spinner" \in shown
    /\ session_state.fleet_data_loaded
    /\ session_state.last_update = Some(now)

\* the fetched values are one of the three failures
FetchFailed(vehicles, df) ==
    \/ vehicles = <<>>
    \/ empty(df)
    \/ \A k \in 1..Len(vehicles) :
          find_excel_match(vehicles[k].name, vehicles[k].externalIds.vin, df) = None

\* C18: a fetch that fails (telematics list empty, cleaned table empty, no
\* vehicle matched) leaves fleet_data_loaded false and last_update as it
\* was, shows an error or a warning and ends the run before the fleet view;
\* while the flag is false every run that reaches the load block fetches;
\* the flag becomes true only together with a non-empty combined table and
\* a new last_update.
C18_FailedFetchStaysUnloaded ==
    [][/\ (LoadStep /\ ~session_state.fleet_data_loaded) =>
             /\ "spinner" \in shown'
             /\ FetchFailed(samsara_data', excel_df'.value) =>
                   /\ ~session_state'.fleet_data_loaded
                   /\ session_state'.last_update = session_state.last_update
                   /\ shown' \cap {"error", "warning"} # {}
                   /\ "view" \notin shown'
                   /\ pc' = "idle"
       /\ (~Loaded(session_state) /\ Loaded(session_state')) =>
             /\ LoadStep
             /\ combined_data' # <<>>
             /\ session_state'.combined_df = Some(combined_data')
             /\ session_state'.last_update = Some(now)]_vars

\* a fetch after an auto-refresh expiry has failed: the flag is false, the
\* run ended with the warning and last_update is still the earlier one
C18_Witness ==
    /\ pc = "idle"
    /\ "warning" \in shown
    /\ "view" \notin shown
    /\ ~session_state.fleet_data_loaded
    /\ session_state.last_update # None
    /\ session_state.last_update # Some(now)

\* C19: whenever fleet_data_loaded is true the cached combined_df is present
\* and not empty, metrics is the summary of that combined_df and last_update
\* is set; a run that has rendered the fleet view has the flag true.
C19_CacheInvariant ==
    /\ Loaded(session_state) =>
          /\ session_state.combined_df # None
          /\ session_state.combined_df[1] # <<>>
          /\ session_state.metrics # None
          /\ session_state.metrics[1].total_vehicles =
                Len(session_state.combined_df[1])
          /\ session_state.metrics =
                Some(create_metrics_summary(session_state.combined_df[1]))
          /\ session_state.last_update # None
    /\ "view" \in shown => Loaded(session_state)

\* the view rendered from data fetched again after the first load
C19_Witness ==
    /\ pc = "idle"
    /\ "view" \in shown
    /\ "spinner" \in shown
    /\ Loaded(session_state)
    /\ session_state.last_update[1].second > 0
    /\ session_state.metrics[1].total_vehicles = 1

===========================================================================
